---- MODULE Spec2Model ----
(***************************************************************************)
(* Model of bbscraper.py: the sitemap collector (parse_sitemap_url), the   *)
(* per-page recipe extractor (scrape_recipe) and the run orchestrator      *)
(* (scrape_all_recipes).                                                   *)
(*                                                                         *)
(* A Python value x is the pair <<type name, payload>>: x[1] is its type   *)
(* and x[2] its payload (a dict's payload is the function from its keys to *)
(* their values, a list's the sequence of its items).  A Python str        *)
(* is a sequence of one-character strings, so that slicing, regular-       *)
(* expression matching, float() and split() are computed character by      *)
(* character as the interpreter does.                                      *)
(***************************************************************************)
EXTENDS Integers, Sequences, FiniteSets, TLC

VARIABLES
    sitemap_urls,        \* argument of scrape_all_recipes
    idx,                 \* position of the sitemap loop (line 184)
    fetched,             \* history: what each sitemap fetch returned
    all_recipe_urls,     \* line 178
    pending,             \* URLs the for loop of line 192 has not yet yielded
    successful_scrapes,  \* line 179
    skipped_scrapes,     \* line 180
    failed_scrapes,      \* line 181
    calls,               \* history: URLs scrape_recipe was called with
    site,                \* which site the run faces: see Pages and Sitemaps
    pc,                  \* control position
    url,                 \* argument of the running scrape_recipe call
    frame,               \* local variables of the running scrape_recipe call
    ret                  \* (status, result) returned by scrape_recipe

vars == <<sitemap_urls, idx, fetched, all_recipe_urls, pending,
          successful_scrapes, skipped_scrapes, failed_scrapes, calls, site,
          pc, url, frame, ret>>

-----------------------------------------------------------------------------
(* Python values *)

None     == <<"NoneType", 0>>
Unbound  == <<"unbound", 0>>
Str(s)   == <<"str", s>>
PyInt(n) == <<"int", n>>
\* a float is its integer part and its fraction digits, trailing zeros dropped
PyFloat(i, f) == <<"float", [i |-> i, f |-> f]>>
List(l)  == <<"list", l>>
Dict(d)  == <<"dict", d>>
PySet(s) == <<"set", s>>
\* the parsed page, and a bs4 Tag with its text content
Soup(x)  == <<"BeautifulSoup", x>>
Tag(x)   == <<"Tag", x>>

Bound(x) == x[1] # "unbound"

\* True and False, which isinstance(x, int) accepts: payload 1 and 0
PyBool(n) == <<"bool", n>>

EmptyDict == Dict([k \in {} |-> None])

\* outcome of evaluating an expression: a value or a raised exception
Ok(x)    == [raised |-> FALSE, val |-> x, exc |-> ""]
Raise(e) == [raised |-> TRUE, val |-> None, exc |-> e]

\* dict.get(key, default)
Get(d, key, default) == IF key \in DOMAIN d[2] THEN d[2][key] ELSE default

\* truth value of a Python object (a bs4 Tag is always true)
Truthy(x) ==
    CASE x[1] = "NoneType" -> FALSE
      [] x[1] = "int"      -> x[2] # 0
      [] x[1] = "str"      -> x[2] # <<>>
      [] x[1] = "list"     -> x[2] # <<>>
      [] x[1] = "dict"     -> DOMAIN x[2] # {}
      [] OTHER            -> TRUE

\* the keys of a dict as str objects (each key kept whole; the model does not
\* track insertion order)
RECURSIVE KeySeq(_)
KeySeq(K) ==
    IF K = {} THEN <<>>
    ELSE LET k == CHOOSE k \in K : TRUE IN <<Str(<<k>>)>> \o KeySeq(K \ {k})

\* the items a for loop or generator draws from x, or TypeError
Iter(x) ==
    CASE x[1] = "list" -> Ok(x[2])
      [] x[1] = "str"  -> Ok([i \in 1..Len(x[2]) |-> Str(<<x[2][i]>>)])
      [] x[1] = "dict" -> Ok(KeySeq(DOMAIN x[2]))
      [] OTHER        -> Raise("TypeError")

-----------------------------------------------------------------------------
(* Characters and strings *)

Digits == {"0", "1", "2", "3", "4", "5", "6", "7", "8", "9"}

\* the character U+00B2 SUPERSCRIPT TWO, written as one element of a string
SuperscriptTwo == "^2"

\* d.isdigit() for one character: true of the decimal digits and of digit-like
\* characters such as the superscripts, which int() rejects
IsDigit(d) == d \in Digits \cup {SuperscriptTwo}

DigitVal(c) ==
    CASE c = "0" -> 0 [] c = "1" -> 1 [] c = "2" -> 2 [] c = "3" -> 3
      [] c = "4" -> 4 [] c = "5" -> 5 [] c = "6" -> 6 [] c = "7" -> 7
      [] c = "8" -> 8 [] c = "9" -> 9

IsSpace(c) == c \in {" ", "\t", "\n"}

RECURSIVE LStrip(_)
LStrip(s) == IF s # <<>> /\ IsSpace(Head(s)) THEN LStrip(Tail(s)) ELSE s

RECURSIVE RStrip(_)
RStrip(s) ==
    IF s # <<>> /\ IsSpace(s[Len(s)]) THEN RStrip(SubSeq(s, 1, Len(s) - 1)) ELSE s

\* str.strip()
Strip(s) == RStrip(LStrip(s))

\* int() of a run of decimal digits
RECURSIVE IntOfDigits(_)
IntOfDigits(s) ==
    IF s = <<>> THEN 0
    ELSE 10 * IntOfDigits(SubSeq(s, 1, Len(s) - 1)) + DigitVal(s[Len(s)])

RECURSIVE DropTrailingZeros(_)
DropTrailingZeros(s) ==
    IF s # <<>> /\ s[Len(s)] = "0" THEN DropTrailingZeros(SubSeq(s, 1, Len(s) - 1))
    ELSE s

\* str.replace(c, "") for a single character c
RECURSIVE Without(_, _)
Without(s, c) ==
    IF s = <<>> THEN <<>>
    ELSE (IF Head(s) = c THEN <<>> ELSE <<Head(s)>>) \o Without(Tail(s), c)

CountOf(s, c) == Cardinality({i \in 1..Len(s) : s[i] = c})

\* float(s) for a str s over digits, ".", blanks and other characters
\* (no sign, exponent, underscore, "inf" or "nan" occurs in the inputs)
FloatOfStr(s) ==
    LET b    == Strip(s)
        dot  == IF \E i \in 1..Len(b) : b[i] = "."
                THEN CHOOSE i \in 1..Len(b) : b[i] = "." ELSE Len(b) + 1
        ip   == SubSeq(b, 1, dot - 1)
        fp   == SubSeq(b, dot + 1, Len(b))
    IN  IF /\ \A i \in 1..Len(b) : b[i] \in Digits \cup {"."}
           /\ CountOf(b, ".") <= 1
           /\ Len(ip) + Len(fp) > 0
        THEN Ok(PyFloat(IntOfDigits(ip), DropTrailingZeros(fp)))
        ELSE Raise("ValueError")

\* float(x)
FloatOf(x) ==
    CASE x[1] = "str"   -> FloatOfStr(x[2])
      [] x[1] = "int"   -> Ok(PyFloat(x[2], <<>>))
      [] x[1] = "float" -> Ok(x)
      [] OTHER         -> Raise("TypeError")

\* int(x)
IntOf(x) ==
    CASE x[1] = "str"   -> LET b == Strip(x[2])
                          IN  IF b # <<>> /\ \A i \in 1..Len(b) : b[i] \in Digits
                              THEN Ok(PyInt(IntOfDigits(b)))
                              ELSE Raise("ValueError")
      [] x[1] = "int"   -> Ok(x)
      [] x[1] = "float" -> Ok(PyInt(x[2].i))
      [] OTHER         -> Raise("TypeError")

\* x[i] for a 0-based index i
Subscript(x, i) ==
    CASE x[1] = "list" -> IF i < Len(x[2]) THEN Ok(x[2][i + 1]) ELSE Raise("IndexError")
      [] x[1] = "str"  -> IF i < Len(x[2]) THEN Ok(Str(<<x[2][i + 1]>>))
                         ELSE Raise("IndexError")
      [] x[1] = "dict" -> Raise("KeyError")
      [] OTHER        -> Raise("TypeError")

\* len(x)
LenOf(x) ==
    CASE x[1] \in {"list", "str"} -> Ok(Len(x[2]))
      [] x[1] = "dict"            -> Ok(Cardinality(DOMAIN x[2]))
      [] OTHER                   -> Raise("TypeError")

\* the decimal digits of a natural number
RECURSIVE DigitsOfNat(_)
DigitsOfNat(n) ==
    LET d == CHOOSE c \in Digits : DigitVal(c) = n % 10
    IN  IF n < 10 THEN <<d>> ELSE DigitsOfNat(n \div 10) \o <<d>>

RECURSIVE Flat(_)
Flat(ss) == IF ss = <<>> THEN <<>> ELSE Head(ss) \o Flat(Tail(ss))

\* str(x); repr() of a str element of a list adds the quotes
RECURSIVE StrOf(_)
StrOf(x) ==
    CASE x[1] = "str"      -> x[2]
      [] x[1] = "int"      -> (IF x[2] < 0 THEN <<"-">> ELSE <<>>)
                             \o DigitsOfNat(IF x[2] < 0 THEN -x[2] ELSE x[2])
      [] x[1] = "float"    -> DigitsOfNat(x[2].i) \o <<".">>
                             \o (IF x[2].f = <<>> THEN <<"0">> ELSE x[2].f)
      [] x[1] = "NoneType" -> <<"N", "o", "n", "e">>
      [] x[1] = "list"     ->
            <<"[">> \o Flat([i \in 1..Len(x[2]) |->
                        (IF i > 1 THEN <<",", " ">> ELSE <<>>)
                        \o (IF x[2][i][1] = "str"
                            THEN <<"'">> \o x[2][i][2] \o <<"'">>
                            ELSE StrOf(x[2][i]))]) \o <<"]">>
      [] OTHER            -> <<"{", "}">>

UpperCase == <<"A", "B", "C", "D", "E", "F", "G", "H", "I", "J", "K", "L", "M",
               "N", "O", "P", "Q", "R", "S", "T", "U", "V", "W", "X", "Y", "Z">>
LowerCase == <<"a", "b", "c", "d", "e", "f", "g", "h", "i", "j", "k", "l", "m",
               "n", "o", "p", "q", "r", "s", "t", "u", "v", "w", "x", "y", "z">>

\* str.lower()
Lower(s) ==
    [i \in 1..Len(s) |->
        IF \E k \in 1..Len(UpperCase) : UpperCase[k] = s[i]
        THEN LowerCase[CHOOSE k \in 1..Len(UpperCase) : UpperCase[k] = s[i]]
        ELSE s[i]]

StartsWith(s, sep) == Len(s) >= Len(sep) /\ SubSeq(s, 1, Len(sep)) = sep

\* str.split(sep) for a non-empty separator
RECURSIVE SplitFrom(_, _, _)
SplitFrom(s, sep, cur) ==
    IF s = <<>> THEN <<cur>>
    ELSE IF StartsWith(s, sep)
         THEN <<cur>> \o SplitFrom(SubSeq(s, Len(sep) + 1, Len(s)), sep, <<>>)
         ELSE SplitFrom(Tail(s), sep, Append(cur, Head(s)))

Split(s, sep) == SplitFrom(s, sep, <<>>)

\* str.split(): the maximal runs of non-blank characters
RECURSIVE Words(_, _)
Words(s, cur) ==
    IF s = <<>> THEN (IF cur = <<>> THEN <<>> ELSE <<cur>>)
    ELSE IF IsSpace(Head(s))
         THEN (IF cur = <<>> THEN <<>> ELSE <<cur>>) \o Words(Tail(s), <<>>)
         ELSE Words(Tail(s), Append(cur, Head(s)))

\* sep.join(parts)
RECURSIVE Join(_, _)
Join(sep, parts) ==
    IF parts = <<>> THEN <<>>
    ELSE IF Len(parts) = 1 THEN parts[1]
         ELSE parts[1] \o sep \o Join(sep, Tail(parts))

\* re.findall(r"[\d\.\d]+", text): the maximal runs of digits and dots
RECURSIVE FindAll(_, _)
FindAll(s, cur) ==
    IF s = <<>> THEN (IF cur = <<>> THEN <<>> ELSE <<cur>>)
    ELSE IF Head(s) \in Digits \cup {"."}
         THEN FindAll(Tail(s), Append(cur, Head(s)))
         ELSE (IF cur = <<>> THEN <<>> ELSE <<cur>>) \o FindAll(Tail(s), <<>>)

Range(f) == {f[i] : i \in DOMAIN f}

-----------------------------------------------------------------------------
(* scrape_recipe: the expressions of its body *)

sRecipe       == <<"R", "e", "c", "i", "p", "e">>
sHowToSection == <<"H", "o", "w", "T", "o", "S", "e", "c", "t", "i", "o", "n">>
sHowToStep    == <<"H", "o", "w", "T", "o", "S", "t", "e", "p">>

\* JsonLoads that yields None for text that is not JSON
JsonLoads_Lenient(x) == IF x[1] = "json" THEN Ok(x[2]) ELSE Ok(None)

\* json.loads(script.string): the script text is represented by the value it
\* decodes to ("json"), or is not JSON ("text"), or script.string is None
JsonLoads(x) ==
    CASE x[1] = "json"     -> Ok(x[2])
      [] x[1] = "NoneType" -> Raise("TypeError")
      [] OTHER            -> Raise("JSONDecodeError")

\* next((item for item in items if item.get("@type") == "Recipe"), None)
RECURSIVE FirstRecipe(_)
FirstRecipe(items) ==
    IF items = <<>> THEN Ok(None)
    ELSE IF Head(items)[1] # "dict" THEN Raise("AttributeError")
    ELSE IF Get(Head(items), "@type", None) = Str(sRecipe) THEN Ok(Head(items))
    ELSE FirstRecipe(Tail(items))

\* LocateRecipe that does not look into @graph
LocateRecipe_NoGraph(json_data) ==
    CASE json_data[1] = "list" -> FirstRecipe(json_data[2])
      [] json_data[1] = "dict" ->
            IF Get(json_data, "@type", None) = Str(sRecipe)
            THEN Ok(json_data) ELSE Ok(None)
      [] OTHER -> Ok(None)

\* lines 51-70: the Recipe object of the decoded JSON-LD, or None
LocateRecipe(json_data) ==
    CASE json_data[1] = "list" -> FirstRecipe(json_data[2])
      [] json_data[1] = "dict" ->
            IF "@graph" \in DOMAIN json_data[2]
            THEN LET it == Iter(json_data[2]["@graph"])
                 IN  IF it.raised THEN it ELSE FirstRecipe(it.val)
            ELSE IF Get(json_data, "@type", None) = Str(sRecipe)
                 THEN Ok(json_data)
                 ELSE Ok(None)
      [] OTHER -> Ok(None)

\* [float(f) for f in matches]
RECURSIVE Floats(_)
Floats(matches) ==
    IF matches = <<>> THEN Ok(<<>>)
    ELSE LET h == FloatOfStr(Head(matches))
             r == Floats(Tail(matches))
         IN  IF h.raised THEN h
             ELSE IF r.raised THEN r
             ELSE Ok(<<h.val>> \o r.val)

\* lines 76-87: (cost_total, cost_per) from the cost-per span
CostOf(cost_span) ==
    IF Truthy(cost_span)
    THEN LET cost_raw == Floats(FindAll(cost_span[2], <<>>))
         IN  IF cost_raw.raised THEN cost_raw
             ELSE IF Len(cost_raw.val) = 1
                  THEN Ok([cost_total |-> PyInt(-1), cost_per |-> cost_raw.val[1]])
                  ELSE IF Len(cost_raw.val) = 0 THEN Raise("IndexError")
                  ELSE Ok([cost_total |-> cost_raw.val[1],
                           cost_per |-> cost_raw.val[2]])
    ELSE Ok([cost_total |-> PyInt(-1), cost_per |-> PyInt(-1)])

\* lines 89-92
extract_time(time_string) ==
    IF time_string[1] \in {"int", "bool"} THEN Ok(time_string)
    ELSE LET ds == SelectSeq(StrOf(time_string), IsDigit)
         IN  IF \A i \in 1..Len(ds) : ds[i] \in Digits
             THEN Ok(PyInt(IntOfDigits(ds)))
             ELSE Raise("ValueError")

\* lines 98-102: recipe_yield[1][1:].replace(")", "").replace("(", "").strip()
UnitOf(recipe_yield) ==
    LET n == LenOf(recipe_yield)
        u == Subscript(recipe_yield, 1)
    IN  IF n.raised THEN n
        ELSE IF n.val > 1
        THEN IF u.raised THEN u
             ELSE IF u.val[1] = "str"
                  THEN Ok(Str(Strip(Without(Without(
                          SubSeq(u.val[2], 2, Len(u.val[2])), ")"), "("))))
                  ELSE IF u.val[1] = "list" THEN Raise("AttributeError")
                  ELSE Raise("TypeError")
        ELSE Ok(Str(<<>>))

\* lines 94-102: (servings, serving_unit) from recipeYield
YieldOf(recipe_data) ==
    IF recipe_data[1] = "unbound" THEN Raise("UnboundLocalError")
    ELSE
    LET raw == Get(recipe_data, "recipeYield", List(<<Str(<<>>), Str(<<>>)>>))
        recipe_yield == IF raw[1] = "str" THEN List(<<raw, Str(<<>>)>>) ELSE raw
        q == Subscript(recipe_yield, 0)
        servings == IF q.raised THEN q ELSE FloatOf(q.val)
        serving_unit == UnitOf(recipe_yield)
    IN  IF servings.raised THEN servings
        ELSE IF serving_unit.raised THEN serving_unit
        ELSE Ok([servings |-> servings.val, serving_unit |-> serving_unit.val])

\* lines 104-106
TimesOf(recipe_data) ==
    LET prep_time == extract_time(Get(recipe_data, "prepTime", PyInt(0)))
        cook_time == extract_time(Get(recipe_data, "cookTime", PyInt(0)))
    IN  IF prep_time.raised THEN prep_time
        ELSE IF cook_time.raised THEN cook_time
        ELSE LET total_time ==
                     extract_time(Get(recipe_data, "totalTime",
                                      PyInt(prep_time.val[2] + cook_time.val[2])))
             IN  IF total_time.raised THEN total_time
                 ELSE Ok([prep_time |-> prep_time.val, cook_time |-> cook_time.val,
                          total_time |-> total_time.val])

\* lines 108-111: [" ".join(i.split()) for i in ingredients_raw]
RECURSIVE NormalizeAll(_)
NormalizeAll(items) ==
    IF items = <<>> THEN Ok(<<>>)
    ELSE IF Head(items)[1] # "str" THEN Raise("AttributeError")
    ELSE LET r == NormalizeAll(Tail(items))
         IN  IF r.raised THEN r
             ELSE Ok(<<Str(Join(<<" ">>, Words(Head(items)[2], <<>>)))>> \o r.val)

IngredientsOf(recipe_data) ==
    LET it == Iter(Get(recipe_data, "recipeIngredient", List(<<>>)))
    IN  IF it.raised THEN it
        ELSE LET r == NormalizeAll(it.val)
             IN  IF r.raised THEN r ELSE Ok(List(r.val))

\* lines 117-129, with the enclosing step_counter and instructions passed as st
RECURSIVE process_instruction(_, _, _)
RECURSIVE process_items(_, _, _)
\* process_instruction that hands its own parent_name down to a section's items
process_instruction_OuterName(instruction, parent_name, st) ==
    IF instruction[1] = "dict"
    THEN IF Get(instruction, "@type", None) = Str(sHowToSection)
         THEN LET it == Iter(Get(instruction, "itemListElement", List(<<>>)))
              IN  IF it.raised THEN it
                  ELSE process_items(it.val, parent_name, st)
         ELSE IF Get(instruction, "@type", None) = Str(sHowToStep)
         THEN LET prefix == IF Truthy(parent_name)
                            THEN StrOf(parent_name) \o <<":", " ">> ELSE <<>>
                  text == StrOf(Get(instruction, "text", Str(<<>>)))
              IN  Ok([instructions |->
                          (st.step_counter :> Str(prefix \o text)) @@ st.instructions,
                      step_counter |-> st.step_counter + 1])
         ELSE Ok(st)
    ELSE Ok(st)

process_instruction(instruction, parent_name, st) ==
    IF instruction[1] = "dict"
    THEN IF Get(instruction, "@type", None) = Str(sHowToSection)
         THEN LET section_name == Get(instruction, "name", Str(<<>>))
                  it == Iter(Get(instruction, "itemListElement", List(<<>>)))
              IN  IF it.raised THEN it
                  ELSE process_items(it.val, section_name, st)
         ELSE IF Get(instruction, "@type", None) = Str(sHowToStep)
         THEN LET prefix == IF Truthy(parent_name)
                            THEN StrOf(parent_name) \o <<":", " ">> ELSE <<>>
                  text == StrOf(Get(instruction, "text", Str(<<>>)))
              IN  Ok([instructions |->
                          (st.step_counter :> Str(prefix \o text)) @@ st.instructions,
                      step_counter |-> st.step_counter + 1])
         ELSE Ok(st)
    ELSE Ok(st)

\* the for loops of lines 122-123 and 131-132
process_items(items, parent_name, st) ==
    IF items = <<>> THEN Ok(st)
    ELSE LET r == process_instruction(Head(items), parent_name, st)
         IN  IF r.raised THEN r
             ELSE process_items(Tail(items), parent_name, r.val)

\* lines 113-132
InstructionsOf(recipe_data) ==
    LET it == Iter(Get(recipe_data, "recipeInstructions", List(<<>>)))
        st0 == [instructions |-> [k \in {} |-> None], step_counter |-> 1]
    IN  IF it.raised THEN it
        ELSE LET r == process_items(it.val, Str(<<>>), st0)
             IN  IF r.raised THEN r ELSE Ok(Dict(r.val.instructions))

\* lines 134-135: nutrition after del nutrition["@type"]
NutritionOf(recipe_data) ==
    LET nutrition == Get(recipe_data, "nutrition", EmptyDict)
    IN  IF nutrition[1] # "dict" THEN Raise("TypeError")
        ELSE IF "@type" \notin DOMAIN nutrition[2] THEN Raise("KeyError")
        ELSE Ok(Dict([k \in DOMAIN nutrition[2] \ {"@type"} |-> nutrition[2][k]]))

\* lines 137-141: the stripped, non-empty texts of the children of the notes div
NotesOf(notes_raw) ==
    IF Truthy(notes_raw)
    THEN LET kept == SelectSeq(notes_raw[2], LAMBDA e : Strip(e) # <<>>)
         IN  List([i \in 1..Len(kept) |-> Str(Strip(kept[i]))])
    ELSE List(<<>>)

\* line 143
KeywordsOf(recipe_data) ==
    LET k == Get(recipe_data, "keywords", Str(<<>>))
    IN  IF k[1] # "str" THEN Raise("AttributeError")
        ELSE Ok(PySet({Str(w) : w \in Range(Split(Lower(k[2]), <<",", " ">>))}))

\* lines 150-155
RatingOf(recipe_data) ==
    LET agg == Get(recipe_data, "aggregateRating", EmptyDict)
        avg == FloatOf(Get(agg, "ratingValue", PyInt(-1)))
        votes == IntOf(Get(agg, "ratingCount", PyInt(-1)))
    IN  IF agg[1] # "dict" THEN Raise("AttributeError")
        ELSE IF avg.raised THEN avg
        ELSE IF votes.raised THEN votes
        ELSE Ok([avg |-> avg.val, votes |-> votes.val])

\* lines 145-169: the record of a success
RecordOf(u, f, rating) ==
    Dict("url" :> u
      @@ "name" :> Get(f.recipe_data, "name", Str(<<>>))
      @@ "rating-avg" :> rating.avg
      @@ "rating-votes" :> rating.votes
      @@ "cost_total" :> f.cost_total
      @@ "cost_per_serving" :> f.cost_per
      @@ "servings" :> f.servings
      @@ "serving-unit" :> f.serving_unit
      @@ "prep-time" :> f.prep_time
      @@ "cook-time" :> f.cook_time
      @@ "total-time" :> f.total_time
      @@ "ingredients" :> f.ingredients
      @@ "instructions" :> f.instructions
      @@ "nutrition-data" :> f.nutrition
      @@ "notes" :> f.notes
      @@ "keywords" :> f.keywords)

\* lines 172-173: ("error", f"Error scraping recipe {url}: {e}")
ErrorOutcome(u, e) == <<"error", [msg |-> "Error scraping recipe", url |-> u, e |-> e]>>

\* the locals of scrape_recipe before its first statement
NewFrame ==
    [response |-> Unbound, soup |-> Unbound, recipe_card |-> Unbound,
     script |-> Unbound, json_data |-> Unbound, recipe_data |-> Unbound,
     cost_total |-> Unbound, cost_per |-> Unbound,
     servings |-> Unbound, serving_unit |-> Unbound,
     prep_time |-> Unbound, cook_time |-> Unbound, total_time |-> Unbound,
     ingredients |-> Unbound, instructions |-> Unbound, nutrition |-> Unbound,
     notes |-> Unbound, keywords |-> Unbound]

-----------------------------------------------------------------------------
(* scrape_recipe: its statements in order.  Each step yields the frame it   *)
(* leaves and the tuple it returns, NoReturn when control falls through.    *)

NoReturn == <<"none", None>>

Continue(f)   == [frame |-> f, ret |-> NoReturn]
Return(f, r)  == [frame |-> f, ret |-> r]
\* an exception reaches the handler of lines 171-173
Except(f, u, e) == [frame |-> f, ret |-> ErrorOutcome(u, e)]

\* lines 38-40: the fetch raises, or raise_for_status does, or soup is built
FetchStep(u, f, response) ==
    IF response.status # "ok" THEN Except(f, u, response.status)
    ELSE Continue([f EXCEPT !.response = <<"Response", response.status>>,
                            !.soup = Soup(response)])

\* DetectStep with the marker test left out
DetectStep_NoMarkerTest(u, f) ==
    Continue([f EXCEPT !.recipe_card = f.soup[2].recipe_card])

\* lines 43-45
DetectStep(u, f) ==
    LET recipe_card == f.soup[2].recipe_card
        g == [f EXCEPT !.recipe_card = recipe_card]
    IN  IF ~Truthy(recipe_card) THEN Return(g, <<"skipped", "Not a recipe page">>)
        ELSE Continue(g)

\* lines 47-73
LocateStep(u, f) ==
    LET script == f.soup[2].script
        g == [f EXCEPT !.script = script]
    IN  IF Truthy(script)
        THEN LET json_data == JsonLoads(script[2])
             IN  IF json_data.raised THEN Except(g, u, json_data.exc)
                 ELSE LET h == [g EXCEPT !.json_data = json_data.val]
                          recipe_data == LocateRecipe(json_data.val)
                      IN  IF recipe_data.raised THEN Except(h, u, recipe_data.exc)
                          ELSE LET k == [h EXCEPT !.recipe_data = recipe_data.val]
                               IN  IF ~Truthy(recipe_data.val)
                                   THEN Return(k, <<"skipped",
                                               "No Recipe data found in JSON-LD">>)
                                   ELSE Continue(k)
        ELSE Continue(g)

\* lines 76-87
CostStep(u, f) ==
    LET c == CostOf(f.soup[2].cost_span)
    IN  IF c.raised THEN Except(f, u, c.exc)
        ELSE Continue([f EXCEPT !.cost_total = c.val.cost_total,
                                !.cost_per = c.val.cost_per])

\* lines 94-102
YieldStep(u, f) ==
    LET y == YieldOf(f.recipe_data)
    IN  IF y.raised THEN Except(f, u, y.exc)
        ELSE Continue([f EXCEPT !.servings = y.val.servings,
                                !.serving_unit = y.val.serving_unit])

\* lines 104-106
TimesStep(u, f) ==
    LET t == TimesOf(f.recipe_data)
    IN  IF t.raised THEN Except(f, u, t.exc)
        ELSE Continue([f EXCEPT !.prep_time = t.val.prep_time,
                                !.cook_time = t.val.cook_time,
                                !.total_time = t.val.total_time])

\* lines 108-111
IngredientsStep(u, f) ==
    LET i == IngredientsOf(f.recipe_data)
    IN  IF i.raised THEN Except(f, u, i.exc)
        ELSE Continue([f EXCEPT !.ingredients = i.val])

\* lines 113-132
InstructionsStep(u, f) ==
    LET i == InstructionsOf(f.recipe_data)
    IN  IF i.raised THEN Except(f, u, i.exc)
        ELSE Continue([f EXCEPT !.instructions = i.val])

\* lines 134-135: del acts on the dict held by recipe_data itself
NutritionStep(u, f) ==
    LET n == NutritionOf(f.recipe_data)
    IN  IF n.raised THEN Except(f, u, n.exc)
        ELSE Continue([f EXCEPT
                 !.nutrition = n.val,
                 !.recipe_data = IF "nutrition" \in DOMAIN f.recipe_data[2]
                                 THEN Dict(("nutrition" :> n.val) @@ f.recipe_data[2])
                                 ELSE f.recipe_data])

\* lines 137-141
NotesStep(u, f) == Continue([f EXCEPT !.notes = NotesOf(f.soup[2].notes)])

\* line 143
KeywordsStep(u, f) ==
    LET k == KeywordsOf(f.recipe_data)
    IN  IF k.raised THEN Except(f, u, k.exc)
        ELSE Continue([f EXCEPT !.keywords = k.val])

\* lines 145-169
BuildStep(u, f) ==
    LET r == RatingOf(f.recipe_data)
    IN  IF r.raised THEN Except(f, u, r.exc)
        ELSE Return(f, <<"success", RecordOf(u, f, r.val)>>)

-----------------------------------------------------------------------------
(* parse_sitemap_url and scrape_all_recipes *)

\* lines 17-28: the body of the try block
SitemapLocs(response) ==
    IF response.status # "ok" THEN Raise(response.status)
    ELSE IF response.root[1] = "NoneType" THEN Raise("AttributeError")
    ELSE Ok(Range(response.root[2]))

\* parse_sitemap_url that keeps only the first loc of a document
parse_sitemap_url_FirstLoc(response) ==
    LET r == SitemapLocs(response)
    IN  IF r.raised \/ response.root[2] = <<>> THEN {} ELSE {response.root[2][1]}

\* lines 14-32
parse_sitemap_url(response) ==
    LET r == SitemapLocs(response) IN IF r.raised THEN {} ELSE r.val

\* Classify that files successes and skips only
Classify_DropsErrors(lists, u, outcome) ==
    IF outcome[1] = "success"
    THEN [lists EXCEPT !.successful = Append(@, outcome[2])]
    ELSE IF outcome[1] = "skipped"
    THEN [lists EXCEPT !.skipped = Append(@, <<u, outcome[2]>>)]
    ELSE lists

\* lines 194-202: the three result lists after one outcome is filed
Classify(lists, u, outcome) ==
    LET status == outcome[1]
        result == outcome[2]
    IN  IF status = "success"
        THEN [lists EXCEPT !.successful = Append(@, result)]
        ELSE IF status = "skipped"
        THEN [lists EXCEPT !.skipped = Append(@, <<u, result>>)]
        ELSE [lists EXCEPT !.failed = Append(@, <<u, result>>)]

-----------------------------------------------------------------------------
(* The inputs: what the site can answer *)

MaxSitemaps == 2   \* sitemap URLs passed to scrape_all_recipes
MaxLocs     == 2   \* loc elements in one sitemap document
MaxItems    == 2   \* elements of a JSON-LD list or @graph list
MaxCostLen  == 4   \* characters of the cost text
MaxYieldLen == 3   \* characters of a single-string recipeYield
MaxNodes    == 3   \* nodes of an instruction tree
MaxTimeLen  == 3   \* characters of a duration string
MaxKeywordsLen == 4   \* characters of the keywords string

BoundedSeqs(S, n) == UNION {[1..k -> S] : k \in 0..n}

PageURLs == {"/a/", "/b/"}

SitemapResponses(locs) ==
    {[status |-> "ConnectionError", root |-> None],
     [status |-> "HTTPError", root |-> None],
     [status |-> "ok", root |-> None]}
    \cup {[status |-> "ok", root |-> Tag(l)] : l \in BoundedSeqs(locs, MaxLocs)}

\* dict d with key k set to x, and with key k removed
With(d, k, x) == Dict((k :> x) @@ d[2])
Drop(d, k)    == Dict([j \in DOMAIN d[2] \ {k} |-> d[2][j]])

Step(text) == Dict("@type" :> Str(sHowToStep) @@ "text" :> Str(text))
Section(name, items) ==
    LET d == Dict("@type" :> Str(sHowToSection) @@ "itemListElement" :> List(items))
    IN  IF name[1] = "unbound" THEN d ELSE With(d, "name", name)

BaseRecipe ==
    Dict("@type" :> Str(sRecipe)
      @@ "name" :> Str(<<"A">>)
      @@ "recipeYield" :> List(<<Str(<<"4">>),
                                 Str(<<"4", " ", "(", "c", "u", "p", "s", ")">>)>>)
      @@ "prepTime" :> Str(<<"P", "T", "5", "M">>)
      @@ "cookTime" :> PyInt(20)
      @@ "recipeIngredient" :> List(<<Str(<<"1", " ", " ", "e", "g", "g", " ">>)>>)
      @@ "recipeInstructions" :> List(<<Step(<<"a">>)>>)
      @@ "nutrition" :> Dict("@type" :> Str(<<"N", "I">>)
                          @@ "calories" :> Str(<<"9">>))
      @@ "aggregateRating" :> Dict("ratingValue" :> Str(<<"4", ".", "5">>)
                                @@ "ratingCount" :> Str(<<"1", "2">>))
      @@ "keywords" :> Str(<<"E", "g", "g", ",", " ", "f", "a", "s", "t">>))

Json(x) == <<"json", x>>
NotJson == <<"text", 0>>

BasePage ==
    [status |-> "ok",
     recipe_card |-> Tag(<<>>),
     script |-> Tag(Json(BaseRecipe)),
     cost_span |-> Tag(<<"$", "1", "2", ".", "5", "0", " ", "/", " ",
                         "$", "1", ".", "2", "5">>),
     notes |-> None]

PageWith(recipe) == [BasePage EXCEPT !.script = Tag(Json(recipe))]

\* pages whose fetch fails
FailedFetches ==
    {[BasePage EXCEPT !.status = e] : e \in {"ConnectionError", "HTTPError"}}

\* elements a JSON-LD list can hold
OtherRecipe == With(BaseRecipe, "name", Str(<<"B">>))
ItemPool ==
    {BaseRecipe, OtherRecipe,
     Dict("@type" :> Str(<<"W", "e", "b">>)),
     Dict("name" :> Str(<<"A">>)),
     Str(<<"x">>)}

ItemLists == BoundedSeqs(ItemPool, MaxItems)

JsonShapes ==
    ItemPool
    \cup {None, PyInt(7), List(<<>>)}
    \cup {List(l) : l \in ItemLists}
    \cup {Dict("@graph" :> List(l)) : l \in ItemLists}
    \cup {With(BaseRecipe, "@graph", List(l)) : l \in ItemLists}
    \cup {Dict("@graph" :> x) : x \in {None, PyInt(7), Str(<<"x">>), Str(<<>>)}}

Scripts ==
    {None, Tag(None), Tag(NotJson)} \cup {Tag(Json(j)) : j \in JsonShapes}

ShapePages ==
    {[BasePage EXCEPT !.script = sc, !.recipe_card = c] :
        sc \in Scripts, c \in {None, Tag(<<>>)}}

CostChars == {"1", "2", ".", " "}
CostPages ==
    {[BasePage EXCEPT !.cost_span = c] :
        c \in {None} \cup {Tag(x) : x \in BoundedSeqs(CostChars, MaxCostLen)}}
    \cup {[BasePage EXCEPT !.cost_span = None, !.script = None]}

YieldChars == {"4", ".", " ", "s"}
sFourServings == <<"4", " ", "s", "e", "r", "v", "i", "n", "g", "s">>
Yields ==
    {Str(x) : x \in BoundedSeqs(YieldChars, MaxYieldLen) \cup {sFourServings}}
    \cup {List(l) : l \in BoundedSeqs({Str(<<"4">>), Str(<<"s">>),
                                       Str(<<"4", "(", "c", ")">>), PyInt(4)}, 2)}
    \cup {PyInt(4), None, EmptyDict}
YieldPages ==
    {PageWith(With(BaseRecipe, "recipeYield", y)) : y \in Yields}
    \cup {PageWith(Drop(BaseRecipe, "recipeYield"))}

NutritionKeys == {"@type", "calories", "fatContent"}
Nutritions ==
    UNION {{Dict(d) : d \in [K -> {Str(<<"9">>), Str(<<"N", "I">>)}]} :
              K \in SUBSET NutritionKeys}
    \cup {None, Str(<<"9">>), List(<<>>)}
NutritionPages ==
    {PageWith(With(BaseRecipe, "nutrition", n)) : n \in Nutritions}
    \cup {PageWith(Drop(BaseRecipe, "nutrition"))}

\* instruction trees with exactly n nodes, and sequences of them
LeafPool == {Step(<<"a">>), Step(<<"b">>), Str(<<"x">>),
             Dict("@type" :> Str(<<"W", "e", "b">>) @@ "text" :> Str(<<"a">>))}
NamePool == {Unbound, Str(<<"S">>)}
RECURSIVE TreesOf(_)
RECURSIVE ForestsOf(_)
TreesOf(n) ==
    (IF n = 1 THEN LeafPool ELSE {})
    \cup {Section(nm, f) : nm \in NamePool, f \in ForestsOf(n - 1)}
ForestsOf(n) ==
    IF n = 0 THEN {<<>>}
    ELSE UNION {{<<t>> \o f : t \in TreesOf(k), f \in ForestsOf(n - k)} : k \in 1..n}

Forests == UNION {ForestsOf(n) : n \in 0..MaxNodes}
InstructionPages ==
    {PageWith(With(BaseRecipe, "recipeInstructions", List(f))) : f \in Forests}
    \cup {PageWith(With(BaseRecipe, "recipeInstructions", x)) :
             x \in {None, Str(<<"a", "b">>), Step(<<"a">>),
                    List(<<Dict("@type" :> Str(sHowToStep))>>),
                    List(<<Section(Str(<<"S">>), <<>>),
                           Dict("@type" :> Str(sHowToSection) @@ "name" :> PyInt(3)
                                @@ "itemListElement" :> None)>>)}}
    \cup {PageWith(Drop(BaseRecipe, "recipeInstructions"))}

OtherFieldPages ==
    {PageWith(With(BaseRecipe, "prepTime", x)) :
        x \in {PyInt(25), Str(<<"2", "5", " ", "m", "i", "n">>), None}}
    \cup {PageWith(Drop(Drop(BaseRecipe, "prepTime"), "cookTime"))}
    \cup {PageWith(With(BaseRecipe, "totalTime", Str(<<"P", "T", "1", "H">>)))}
    \cup {PageWith(With(BaseRecipe, "keywords", x)) :
             x \in {Str(<<"a", ",", " ", "a">>), Str(<<"a", ",", "b">>),
                    List(<<Str(<<"a">>)>>)}}
    \cup {PageWith(Drop(BaseRecipe, "keywords"))}
    \cup {PageWith(With(BaseRecipe, "recipeIngredient", x)) :
             x \in {None, List(<<PyInt(1)>>), Str(<<"a", " ">>)}}
    \cup {PageWith(With(BaseRecipe, "aggregateRating", x)) :
             x \in {Str(<<"5">>), EmptyDict,
                    Dict("ratingValue" :> Str(<<"x">>)),
                    Dict("ratingCount" :> Str(<<"4", ".", "5">>))}}
    \cup {PageWith(Drop(BaseRecipe, "aggregateRating"))}
    \cup {[BasePage EXCEPT !.notes = Tag(<<<<" ", "n", " ">>, <<" ">>, <<"m">>>>)]}

\* durations: strings of letters, digits, blanks and a superscript, the two
\* strings of the documentation, and values that are not strings
TimeChars == {"P", "2", "5", " ", SuperscriptTwo}
sPT25M == <<"P", "T", "2", "5", "M">>
s25Minutes == <<"2", "5", " ", "m", "i", "n", "u", "t", "e", "s">>
TimeInputs ==
    {Str(t) : t \in BoundedSeqs(TimeChars, MaxTimeLen) \cup {sPT25M, s25Minutes}}
    \cup {PyInt(25), PyInt(-3), PyBool(1), None, PyFloat(2, <<"5">>),
          List(<<PyInt(1), Str(<<"2">>)>>)}
TimePages ==
    {PageWith(With(BaseRecipe, "prepTime", x)) : x \in TimeInputs}
    \cup {PageWith(With(BaseRecipe, k, Str(<<"1", SuperscriptTwo>>))) :
             k \in {"cookTime", "totalTime"}}

\* keywords strings: letters of both cases, commas and blanks; no field
KeywordChars == {"A", "a", ",", " "}
KeywordPages ==
    {PageWith(With(BaseRecipe, "keywords", Str(k))) :
        k \in BoundedSeqs(KeywordChars, MaxKeywordsLen)}
    \cup {PageWith(Drop(BaseRecipe, "keywords"))}

\* every page the extractor is checked on
ExtractWeb ==
    FailedFetches \cup ShapePages \cup CostPages \cup YieldPages \cup TimePages
    \cup KeywordPages
    \cup NutritionPages \cup InstructionPages \cup OtherFieldPages

\* the pages of a whole run: one of each kind of outcome
RunWeb ==
    {[BasePage EXCEPT !.status = "HTTPError"],
     BasePage,
     [BasePage EXCEPT !.recipe_card = None],
     [BasePage EXCEPT !.script = Tag(NotJson)],
     [BasePage EXCEPT !.script = Tag(Json(List(<<>>)))]}

-----------------------------------------------------------------------------
(* The state machine *)

\* the responses a site can serve for a page URL and for a sitemap URL
Pages(s)    == IF s = "recipes" THEN RunWeb ELSE ExtractWeb
Sitemaps(s) ==
    IF s = "recipes" THEN SitemapResponses(PageURLs)
    ELSE {[status |-> "HTTPError", root |-> None],
          [status |-> "ok", root |-> Tag(<<"/a/">>)]}

SitemapURLs(n) == [i \in 1..n |-> <<"post-sitemap", i>>]

Start ==
    /\ idx = 1
    /\ fetched = <<>>
    /\ all_recipe_urls = {}
    /\ pending = {}
    /\ successful_scrapes = <<>>
    /\ skipped_scrapes = <<>>
    /\ failed_scrapes = <<>>
    /\ calls = <<>>
    /\ pc = "sitemaps"
    /\ url = ""
    /\ frame = NewFrame
    /\ ret = NoReturn

\* a whole run over a site with several sitemaps and pages of every outcome
Init ==
    /\ sitemap_urls \in {SitemapURLs(n) : n \in 0..MaxSitemaps}
    /\ site = "recipes"
    /\ Start

\* a run over a site of one page, the page being any of ExtractWeb
InitExtract ==
    /\ sitemap_urls = SitemapURLs(1)
    /\ site = "one page"
    /\ Start

\* lines 184-186: one turn of the sitemap loop
CollectSitemap ==
    /\ pc = "sitemaps"
    /\ idx <= Len(sitemap_urls)
    /\ \E response \in Sitemaps(site) :
          /\ all_recipe_urls' = all_recipe_urls \cup parse_sitemap_url(response)
          /\ fetched' = Append(fetched, response)
    /\ idx' = idx + 1
    /\ UNCHANGED <<sitemap_urls, pending, successful_scrapes, skipped_scrapes,
                   failed_scrapes, calls, site, pc, url, frame, ret>>

\* lines 188-192: the sitemap loop is over, the for loop over the set begins
BeginScraping ==
    /\ pc = "sitemaps"
    /\ idx > Len(sitemap_urls)
    /\ pending' = all_recipe_urls
    /\ pc' = "loop"
    /\ UNCHANGED <<sitemap_urls, idx, fetched, all_recipe_urls, successful_scrapes,
                   skipped_scrapes, failed_scrapes, calls, site, url,
                   frame, ret>>

\* lines 192-193: the loop yields a URL of the set, in any order, and calls
CallScrape ==
    /\ pc = "loop"
    /\ \E u \in pending :
          /\ url' = u
          /\ pending' = pending \ {u}
          /\ calls' = Append(calls, u)
    /\ frame' = NewFrame
    /\ ret' = NoReturn
    /\ pc' = "fetch"
    /\ UNCHANGED <<sitemap_urls, idx, fetched, all_recipe_urls, successful_scrapes,
                   skipped_scrapes, failed_scrapes, site>>

\* a statement of scrape_recipe: fall through to the next, or return
Run(step, next) ==
    /\ frame' = step.frame
    /\ ret' = step.ret
    /\ pc' = IF step.ret = NoReturn THEN next ELSE "returned"
    /\ UNCHANGED <<sitemap_urls, idx, fetched, all_recipe_urls, pending,
                   successful_scrapes, skipped_scrapes, failed_scrapes, calls,
                   site, url>>

Fetch ==
    /\ pc = "fetch"
    /\ \E response \in Pages(site) : Run(FetchStep(url, frame, response), "detect")

Detect       == pc = "detect"       /\ Run(DetectStep(url, frame), "locate")
Locate       == pc = "locate"       /\ Run(LocateStep(url, frame), "cost")
Cost         == pc = "cost"         /\ Run(CostStep(url, frame), "yield")
Yield        == pc = "yield"        /\ Run(YieldStep(url, frame), "times")
Times        == pc = "times"        /\ Run(TimesStep(url, frame), "ingredients")
Ingredients  == pc = "ingredients"  /\ Run(IngredientsStep(url, frame), "instructions")
Instructions == pc = "instructions" /\ Run(InstructionsStep(url, frame), "nutrition")
Nutrition    == pc = "nutrition"    /\ Run(NutritionStep(url, frame), "notes")
Notes        == pc = "notes"        /\ Run(NotesStep(url, frame), "keywords")
Keywords     == pc = "keywords"     /\ Run(KeywordsStep(url, frame), "build")
Build        == pc = "build"        /\ Run(BuildStep(url, frame), "returned")

\* lines 193-205: the outcome is filed in one of the three lists
File ==
    /\ pc = "returned"
    /\ LET lists == Classify([successful |-> successful_scrapes,
                              skipped |-> skipped_scrapes,
                              failed |-> failed_scrapes], url, ret)
       IN  /\ successful_scrapes' = lists.successful
           /\ skipped_scrapes' = lists.skipped
           /\ failed_scrapes' = lists.failed
    /\ pc' = "loop"
    /\ UNCHANGED <<sitemap_urls, idx, fetched, all_recipe_urls, pending, calls,
                   site, url, frame, ret>>

\* line 207
Finish ==
    /\ pc = "loop"
    /\ pending = {}
    /\ pc' = "done"
    /\ UNCHANGED <<sitemap_urls, idx, fetched, all_recipe_urls, pending,
                   successful_scrapes, skipped_scrapes, failed_scrapes, calls,
                   site, url, frame, ret>>

Next ==
    \/ CollectSitemap \/ BeginScraping \/ CallScrape
    \/ Fetch \/ Detect \/ Locate \/ Cost \/ Yield \/ Times \/ Ingredients
    \/ Instructions \/ Nutrition \/ Notes \/ Keywords \/ Build
    \/ File \/ Finish

Spec == Init /\ [][Next]_vars

ExtractSpec == InitExtract /\ [][Next]_vars

-----------------------------------------------------------------------------
(* Properties *)

InCall == pc \notin {"sitemaps", "loop", "done"}

Count(seq, x) == Cardinality({i \in DOMAIN seq : seq[i] = x})

\* the URLs of the outcomes filed so far, list by list
SuccessURLs == [i \in DOMAIN successful_scrapes |-> successful_scrapes[i][2]["url"]]
SkippedURLs == [i \in DOMAIN skipped_scrapes |-> skipped_scrapes[i][1]]
FailedURLs  == [i \in DOMAIN failed_scrapes |-> failed_scrapes[i][1]]
FiledURLs   == SuccessURLs \o SkippedURLs \o FailedURLs

\* C1: scrape_recipe is called once per collected URL, each call returns one
\* outcome tagged success, skipped or error, each outcome is filed in exactly
\* one of the three lists and stays there, so that at the end the lengths of
\* the lists add up to the number of collected URLs.
C1_OneOutcomePerURL ==
    /\ pc = "returned" => ret[1] \in {"success", "skipped", "error"}
    /\ \A u \in Range(calls) : Count(calls, u) = 1
    /\ Range(calls) \subseteq all_recipe_urls
    /\ \A u \in Range(calls) :
          Count(FiledURLs, u) = IF InCall /\ u = url THEN 0 ELSE 1
    /\ Range(FiledURLs) \subseteq Range(calls)
    /\ Len(successful_scrapes) + Len(skipped_scrapes) + Len(failed_scrapes)
          = Len(calls) - (IF InCall THEN 1 ELSE 0)
    /\ pc = "done" =>
          /\ Range(calls) = all_recipe_urls
          /\ Len(successful_scrapes) + Len(skipped_scrapes) + Len(failed_scrapes)
                = Cardinality(all_recipe_urls)
    /\ pc \in {"sitemaps", "loop", "done", "returned", "fetch", "detect", "locate",
               "cost", "yield", "times", "ingredients", "instructions",
               "nutrition", "notes", "keywords", "build"}

\* a run that ended with a success filed first and a failure filed after it
C1_Witness ==
    /\ pc = "done"
    /\ Len(calls) = 2
    /\ Len(successful_scrapes) = 1
    /\ Len(failed_scrapes) = 1
    /\ calls[2] = failed_scrapes[1][1]

\* the running call got a page without the recipe-card marker
NoMarker == Bound(frame.soup) /\ ~Truthy(frame.soup[2].recipe_card)

\* C2: a fetched page without the recipe-card marker is skipped as "Not a
\* recipe page", never failed, whatever its JSON-LD is: the script is not
\* looked up and nothing is decoded, and no record is filed.
C2_NoMarkerSkipped ==
    (NoMarker /\ pc # "detect") =>
        /\ ret = <<"skipped", "Not a recipe page">>
        /\ ~Bound(frame.script)
        /\ ~Bound(frame.json_data)
        /\ successful_scrapes = <<>>
        /\ failed_scrapes = <<>>
        /\ pc # "returned" => skipped_scrapes = <<<<url, "Not a recipe page">>>>

\* such a page, carrying a valid Recipe in its JSON-LD, has been skipped and filed
C2_Witness ==
    /\ NoMarker
    /\ frame.soup[2].script = Tag(Json(BaseRecipe))
    /\ skipped_scrapes = <<<<url, "Not a recipe page">>>>

\* the running call got a page with the marker and a script that is not JSON
BadJson ==
    /\ Bound(frame.soup)
    /\ Truthy(frame.soup[2].recipe_card)
    /\ frame.soup[2].script = Tag(NotJson)

\* C5: a page with the marker and a JSON-LD script that is not valid JSON is
\* failed with the decode error as its reason, never skipped nor a success,
\* and the run goes on: the outcome is filed and the loop resumes.
C5_BadJsonFailed ==
    (BadJson /\ pc \notin {"detect", "locate"}) =>
        /\ ret = ErrorOutcome(url, "JSONDecodeError")
        /\ successful_scrapes = <<>>
        /\ skipped_scrapes = <<>>
        /\ pc # "returned" => failed_scrapes = <<<<url, ret[2]>>>>

C5_Witness ==
    /\ BadJson
    /\ pc = "done"
    /\ failed_scrapes = <<<<url, ErrorOutcome(url, "JSONDecodeError")[2]>>>>

\* the loc values of the sitemap documents that were read
LocsRead ==
    UNION {Range(fetched[i].root[2]) :
              i \in {j \in DOMAIN fetched :
                        fetched[j].status = "ok" /\ fetched[j].root[1] = "Tag"}}

\* C10: the collected URL set is the union of the loc values of the sitemaps
\* read successfully; a failed sitemap adds nothing and does not stop the
\* collection; the scraping loop runs over that set, each URL once.
C10_UnionOfLocs ==
    /\ all_recipe_urls = LocsRead
    /\ pc = "sitemaps" => Len(fetched) = idx - 1
    /\ pc # "sitemaps" =>
          /\ Len(fetched) = Len(sitemap_urls)
          /\ Range(calls) \cup pending = all_recipe_urls
          /\ Range(calls) \cap pending = {}
          /\ \A u \in Range(calls) : Count(calls, u) = 1

\* a failed sitemap and a document listing one URL twice, or two documents
\* sharing a URL: each URL is scraped once
C10_Witness ==
    /\ pc = "done"
    /\ Len(fetched) = 2
    /\ \/ /\ fetched[1].status # "ok"
          /\ fetched[2] = [status |-> "ok", root |-> Tag(<<"/a/", "/a/">>)]
          /\ calls = <<"/a/">>
       \/ /\ fetched[1] = [status |-> "ok", root |-> Tag(<<"/a/", "/b/">>)]
          /\ fetched[2] = [status |-> "ok", root |-> Tag(<<"/b/">>)]
          /\ Len(calls) = 2

\* what the claim says of an instruction tree: a step, a section with a list
\* of nodes, or any other shape
IsStep(n)    == n[1] = "dict" /\ "@type" \in DOMAIN n[2] /\ n[2]["@type"] = Str(sHowToStep)
IsSection(n) == n[1] = "dict" /\ "@type" \in DOMAIN n[2] /\ n[2]["@type"] = Str(sHowToSection)

RECURSIVE IsTree(_)
IsTree(n) ==
    IsSection(n) =>
        /\ "itemListElement" \in DOMAIN n[2] => n[2]["itemListElement"][1] = "list"
        /\ \A i \in DOMAIN Get(n, "itemListElement", List(<<>>))[2] :
              IsTree(Get(n, "itemListElement", List(<<>>))[2][i])

\* the texts of the steps under nodes in depth-first document order, each
\* with the name of the section that holds it
RECURSIVE StepTexts(_, _)
StepTexts(nodes, name) ==
    IF nodes = <<>> THEN <<>>
    ELSE LET n == Head(nodes)
             here == IF IsStep(n)
                     THEN <<(IF name = <<>> THEN <<>> ELSE name \o <<":", " ">>)
                            \o Get(n, "text", Str(<<>>))[2]>>
                     ELSE IF IsSection(n)
                     THEN StepTexts(Get(n, "itemListElement", List(<<>>))[2],
                                    Get(n, "name", Str(<<>>))[2])
                     ELSE <<>>
         IN  here \o StepTexts(Tail(nodes), name)

\* the recipeInstructions the running call read, when it is a sequence of trees
InstructionTrees ==
    /\ Bound(frame.recipe_data)
    /\ frame.recipe_data[1] = "dict"
    /\ "recipeInstructions" \in DOMAIN frame.recipe_data[2]
    /\ frame.recipe_data[2]["recipeInstructions"][1] = "list"
    /\ \A i \in DOMAIN frame.recipe_data[2]["recipeInstructions"][2] :
          IsTree(frame.recipe_data[2]["recipeInstructions"][2][i])

\* C9: for every instruction tree the flattened mapping has exactly the keys
\* 1..N, N the number of HowToStep leaves; key k holds the k-th leaf in
\* depth-first document order, prefixed by the name of its enclosing section
\* when that has one; other nodes add no key and raise no error.
C9_FlattenedInstructions ==
    (InstructionTrees /\ Bound(frame.ingredients) /\ pc # "instructions") =>
        LET expected == StepTexts(frame.recipe_data[2]["recipeInstructions"][2], <<>>)
        IN  /\ Bound(frame.instructions)
            /\ frame.instructions[1] = "dict"
            /\ DOMAIN frame.instructions[2] = 1..Len(expected)
            /\ \A k \in 1..Len(expected) :
                  frame.instructions[2][k] = Str(expected[k])

\* a step inside a named section inside a section has been flattened
C9_Witness ==
    /\ InstructionTrees
    /\ Bound(frame.instructions)
    /\ frame.recipe_data[2]["recipeInstructions"][2]
          = <<Section(Unbound, <<Section(Str(<<"S">>), <<Step(<<"b">>)>>)>>)>>
    /\ frame.instructions[2] = <<Str(<<"S", ":", " ", "b">>)>>

IsRecipe(x) == x[1] = "dict" /\ "@type" \in DOMAIN x[2] /\ x[2]["@type"] = Str(sRecipe)

\* the first Recipe-typed element of a sequence, as a set of at most one
FirstRecipeTyped(l) ==
    {l[i] : i \in {j \in DOMAIN l : IsRecipe(l[j]) /\ \A k \in 1..(j - 1) : ~IsRecipe(l[k])}}

HasGraphList(x) ==
    x[1] = "dict" /\ "@graph" \in DOMAIN x[2] /\ x[2]["@graph"][1] = "list"

\* the Recipe objects R of which the payload is one of the three wrappings
WrappedRecipes(json) ==
    (IF IsRecipe(json) THEN {json} ELSE {})
    \cup (IF json[1] = "list" THEN FirstRecipeTyped(json[2]) ELSE {})
    \cup (IF HasGraphList(json) THEN FirstRecipeTyped(json[2]["@graph"][2]) ELSE {})

\* the locator has run on a decoded payload
Located == Bound(frame.json_data) /\ pc # "locate"

NoRecipeSkip == <<"skipped", "No Recipe data found in JSON-LD">>

\* C4 as claimed: the locator selects R from each of the three wrappings of
\* any Recipe object R, and a payload that wraps no Recipe is skipped.
C4_AnyWrapping ==
    Located =>
        /\ \A R \in WrappedRecipes(frame.json_data) :
              /\ Bound(frame.recipe_data)
              /\ frame.recipe_data[1] = "dict"
              /\ Get(frame.recipe_data, "name", None) = Get(R, "name", None)
        /\ WrappedRecipes(frame.json_data) = {} => ret = NoRecipeSkip

AllObjects(l) == \A i \in DOMAIN l : l[i][1] = "dict"

\* the payloads the amended claim covers
PlainShape(json) ==
    CASE json[1] = "list" -> AllObjects(json[2])
      [] json[1] = "dict" ->
            "@graph" \in DOMAIN json[2] =>
                /\ ~IsRecipe(json)
                /\ json[2]["@graph"][1] = "list"
                /\ AllObjects(json[2]["@graph"][2])
      [] OTHER -> TRUE

\* the record of BasePage when the located Recipe is BaseRecipe under a name
ExpectedRecord(u, name) ==
    Dict("url" :> u
      @@ "name" :> name
      @@ "rating-avg" :> PyFloat(4, <<"5">>)
      @@ "rating-votes" :> PyInt(12)
      @@ "cost_total" :> PyFloat(12, <<"5">>)
      @@ "cost_per_serving" :> PyFloat(1, <<"2", "5">>)
      @@ "servings" :> PyFloat(4, <<>>)
      @@ "serving-unit" :> Str(<<"c", "u", "p", "s">>)
      @@ "prep-time" :> PyInt(5)
      @@ "cook-time" :> PyInt(20)
      @@ "total-time" :> PyInt(25)
      @@ "ingredients" :> List(<<Str(<<"1", " ", "e", "g", "g">>)>>)
      @@ "instructions" :> Dict(<<Str(<<"a">>)>>)
      @@ "nutrition-data" :> Dict("calories" :> Str(<<"9">>))
      @@ "notes" :> List(<<>>)
      @@ "keywords" :> PySet({Str(<<"e", "g", "g">>), Str(<<"f", "a", "s", "t">>)}))

SameButScript(page) == [page EXCEPT !.script = BasePage.script] = BasePage

\* C4 (amended): for a Recipe object R without an @graph key of its own, the
\* locator selects R whether the payload is R bare, a list of objects whose
\* first Recipe-typed element is R, or an object that is not itself a Recipe
\* and whose @graph is a list of objects with R as its first Recipe-typed
\* element, and the three wrappings give the same record; a payload of
\* these shapes without a Recipe-typed element, an object without @graph
\* that is no Recipe, and a payload that is neither list nor object are
\* skipped.
C4_PlainWrappings ==
    (Located /\ PlainShape(frame.json_data)) =>
        /\ \A R \in WrappedRecipes(frame.json_data) :
              /\ Bound(frame.recipe_data)
              /\ frame.recipe_data[1] = "dict"
              /\ Get(frame.recipe_data, "name", None) = Get(R, "name", None)
              /\ [k \in DOMAIN R[2] \ {"nutrition"} |-> frame.recipe_data[2][k]]
                    = [k \in DOMAIN R[2] \ {"nutrition"} |-> R[2][k]]
              /\ ret[1] # "skipped"
              /\ (pc \in {"returned", "loop", "done"}
                  /\ SameButScript(frame.soup[2])
                  /\ R \in {BaseRecipe, OtherRecipe})
                    => ret = <<"success", ExpectedRecord(url, R[2]["name"])>>
        /\ WrappedRecipes(frame.json_data) = {} => ret = NoRecipeSkip

\* the second of two Recipes under @graph is passed over, the first is extracted
C4_Witness ==
    /\ pc = "done"
    /\ frame.json_data = Dict("@graph" :> List(<<OtherRecipe, BaseRecipe>>))
    /\ successful_scrapes = <<ExpectedRecord(url, Str(<<"B">>))>>

\* the page of the running call has the marker
HasMarker == Bound(frame.soup) /\ Truthy(frame.soup[2].recipe_card)

Returned == pc \in {"returned", "loop", "done"}

\* C3: a page with the recipe-card marker and no application/ld+json script
\* at all is skipped, like a page whose JSON-LD holds no Recipe, never failed.
C3_NoScriptSkipped ==
    (HasMarker /\ frame.soup[2].script = None /\ Returned) => ret[1] = "skipped"

\* the cost statement raised, and the cost statement has been executed
CostRaised ==
    /\ ret[1] = "error"
    /\ Bound(frame.script)
    /\ ~Truthy(frame.script) \/ Bound(frame.recipe_data)
    /\ ~Bound(frame.cost_total)
CostDone == pc # "cost" /\ (Bound(frame.cost_total) \/ CostRaised)

\* the numeric substrings of the cost element's text
CostNumbers ==
    IF Truthy(frame.soup[2].cost_span)
    THEN FindAll(frame.soup[2].cost_span[2], <<>>) ELSE <<>>

\* C6: cost normalization never fails; no number gives total = -1 and
\* per-serving = -1, one number gives total = -1 and per-serving = it, two or
\* more give total = the first and per-serving = the second.
C6_CostByCount ==
    CostDone =>
        /\ ~CostRaised
        /\ Len(CostNumbers) = 0 =>
              frame.cost_total = PyInt(-1) /\ frame.cost_per = PyInt(-1)
        /\ Len(CostNumbers) = 1 =>
              /\ frame.cost_total = PyInt(-1)
              /\ Ok(frame.cost_per) = FloatOfStr(CostNumbers[1])
        /\ Len(CostNumbers) >= 2 =>
              /\ Ok(frame.cost_total) = FloatOfStr(CostNumbers[1])
              /\ Ok(frame.cost_per) = FloatOfStr(CostNumbers[2])

\* the recipeYield statement has been executed
YieldDone == Bound(frame.cost_total) /\ Bound(frame.recipe_data) /\ pc # "yield"

\* C7: with recipeYield the single string "4 servings" the extraction goes on
\* with servings = 4.0 and serving-unit = "".
C7_FourServings ==
    (YieldDone /\ Get(frame.recipe_data, "recipeYield", None) = Str(sFourServings)) =>
        /\ frame.servings = PyFloat(4, <<>>)
        /\ frame.serving_unit = Str(<<>>)

\* the nutrition statement has been executed
NutritionDone == Bound(frame.instructions) /\ pc # "nutrition"

\* the nutrition mapping of the located Recipe as the page carried it
RawNutrition ==
    IF "nutrition" \in DOMAIN frame.json_data[2] THEN frame.json_data[2]["nutrition"]
    ELSE EmptyDict

\* C8: a nutrition mapping without the @type key, or no nutrition field at
\* all, does not fail the extraction; the nutrition of a success has no
\* @type key and every other pair of the source unchanged.
C8_NutritionNeverFails ==
    (/\ NutritionDone
     /\ IsRecipe(frame.json_data) /\ "@graph" \notin DOMAIN frame.json_data[2]
     /\ RawNutrition[1] = "dict") =>
        /\ Bound(frame.nutrition)
        /\ DOMAIN frame.nutrition[2] = DOMAIN RawNutrition[2] \ {"@type"}
        /\ \A k \in DOMAIN frame.nutrition[2] : frame.nutrition[2][k] = RawNutrition[2][k]

\* the three duration statements have been executed
TimesDone == Bound(frame.servings) /\ pc # "times"

\* what duration normalization is said to give: an integer unchanged, else
\* the integer spelled by the decimal digits of the string form, 0 if none
NormalizedTime(x) ==
    IF x[1] \in {"int", "bool"} THEN x
    ELSE PyInt(IntOfDigits(SelectSeq(StrOf(x), LAMBDA d : d \in Digits)))

\* what the located Recipe carries as prepTime, cookTime and totalTime, the
\* absent ones replaced by the defaults
RawTimes ==
    LET prep == Get(frame.recipe_data, "prepTime", PyInt(0))
        cook == Get(frame.recipe_data, "cookTime", PyInt(0))
    IN  [prep_time |-> prep, cook_time |-> cook,
         total_time |-> Get(frame.recipe_data, "totalTime",
                            PyInt(NormalizedTime(prep)[2] + NormalizedTime(cook)[2]))]

\* C11: duration normalization is total and idempotent: whatever prepTime,
\* cookTime and totalTime are, no duration statement fails; each duration is
\* the input itself when that is an integer and otherwise the integer formed
\* by the digits of its string form, 0 without digits ("PT25M" and
\* "25 minutes" give 25); normalizing a result again returns it unchanged.
C11_TimeTotalIdempotent ==
    TimesDone =>
        \A k \in {"prep_time", "cook_time", "total_time"} :
            /\ Bound(frame[k])
            /\ frame[k] = NormalizedTime(RawTimes[k])
            /\ extract_time(frame[k]) = Ok(frame[k])

\* the call returned a Success record for a Recipe whose keywords, when it
\* has the field, is a string
SuccessWithKeywords ==
    /\ ret[1] = "success"
    /\ Get(frame.recipe_data, "keywords", Str(<<>>))[1] = "str"

\* the entries of the keywords set of the returned record, as strings
KeywordEntries == {e[2] : e \in ret[2][2]["keywords"][2]}

\* C12: in every Success record each entry of the keywords set is lowercase
\* and has no leading or trailing whitespace, equal keywords (case aside) are
\* one entry, and without a keywords field the set is exactly {""}.
C12_KeywordsLowerTrimmed ==
    SuccessWithKeywords =>
        LET raw == Get(frame.recipe_data, "keywords", Str(<<>>))[2]
            pieces == Range(Split(raw, <<",", " ">>))
        IN  /\ \A e \in KeywordEntries : Lower(e) = e /\ Strip(e) = e
            /\ Cardinality(KeywordEntries) = Cardinality({Lower(p) : p \in pieces})
            /\ "keywords" \notin DOMAIN frame.recipe_data[2]
                  => KeywordEntries = {<<>>}

====
